---- MODULE Spec2Model ----
(***************************************************************************)
(* State-machine model of ai_diffusion/model.py: Model (job dispatch,      *)
(* event routing, cancel, preview) and LiveWorkspace (live loop and the    *)
(* recording drain).  One action per handler or coroutine step; a handler  *)
(* runs to completion, a coroutine runs from one await to the next.        *)
(*                                                                         *)
(* Numbers: strength and progress are in tenths (10 is 1.0).  A job's      *)
(* results are the number of images attached.  A server job id is a        *)
(* positive number, 0 stands for None.  A recorded frame is identified by  *)
(* the key of the live job that produced it.                               *)
(***************************************************************************)
EXTENDS Integers, Sequences, FiniteSets, TLC

\* ---------------------------------------------------------------- bounds
MaxBatch == 2      \* largest batch_count a request is given
MaxTasks == 2      \* Spec: coroutines handed to the event loop in one run
MaxJobs == 2       \* Spec: job records created in one run
MaxLiveTasks == 3  \* SpecLive: coroutines handed to the event loop
MaxLiveJobs == 2   \* SpecLive: job records created in one run
MaxRecTasks == 6   \* SpecRec: coroutines handed to the event loop
MaxRecJobs == 4    \* SpecRec: job records created in one run

\* ------------------------------------------------------- program values
Full == 10         \* strength 1.0, progress 1
BatchSize == 2     \* settings.batch_size, the seed stride
AllStrengths == {0, 3, Full}
Seeds == {1, 6}
Prompt == "pos"
NegativePrompt == "neg"
Canvas == <<0, 0, 8, 8>>        \* Bounds(0, 0, *doc.extent)
ImageBounds == <<1, 1, 6, 6>>   \* image bounds around a selection
MaskBounds == <<3, 2, 4, 4>>    \* absolute bounds of the selection mask
NoBounds == <<>>

\* ------------------------------------------------------------ variables
VARIABLES
    jobs,            \* Model.jobs: the tracked job records, in insertion order
    selection,       \* JobQueue.selection: <<>> or <<job id, image index>>
    progress,        \* Model.progress
    error,           \* Model.error
    layer,           \* Model._layer is not None (the preview layer)
    is_active,       \* LiveWorkspace._is_active
    is_recording,    \* LiveWorkspace._is_recording
    keyframes,       \* LiveWorkspace._keyframes
    recording_layer, \* LiveWorkspace._recording_layer is not None
    tasks,           \* the running coroutines of eventloop.run, in creation order
    next_task,       \* number of coroutines handed to eventloop.run, plus one
    current_time,    \* doc.current_time
    end_time,        \* doc.end_time
    layer_keyframes, \* times at which the recording layer has a keyframe
    pending,         \* add-keyframe actions triggered and not yet carried out
    next_id,         \* the id the remote worker hands out next
    next_key,        \* number of job records created so far, plus one
    add_log,         \* history: every record handed to JobQueue._add
    completed,       \* history: the batches whose for loop ran to its end
    live_submitted,  \* history: number of generate_live calls
    write_log,       \* history: every frame written to the recording layer
    last             \* history: what the last handler or step did

vars == <<jobs, selection, progress, error, layer, is_active, is_recording,
          keyframes, recording_layer, tasks, next_task, current_time, end_time,
          layer_keyframes, pending, next_id, next_key, add_log, completed,
          live_submitted, write_log, last>>

\* ------------------------------------------------- Bounds (image.Bounds)
BoundsX(b) == b[1]
BoundsY(b) == b[2]
BoundsExtent(b) == <<b[3], b[4]>>

\* mask bounds relative to the cropped image (Model._generate)
MaskBoundsRel(mask_bounds, bounds) ==
    <<BoundsX(mask_bounds) - BoundsX(bounds), BoundsY(mask_bounds) - BoundsY(bounds),
      BoundsExtent(mask_bounds)[1], BoundsExtent(mask_bounds)[2]>>

\* the request's bounds kept for the jobs
JobBoundsRequest(mask, mask_bounds, bounds) == bounds

\* bounds recorded on the jobs: absolute mask bounds when a mask is given
JobBounds(mask, mask_bounds, bounds) ==
    IF mask THEN mask_bounds ELSE bounds

\* ------------------------------------------- mode selection (_generate)
\* The if/elif chain of Model._generate with its assertions; "assert" is a
\* failed assertion, anything else names the workflow builder called.
\* the chain with a third branch that does not test is_live
SelectModeLiveInpaints(image, mask, strength, is_live) ==
    IF ~image /\ ~mask
    THEN (IF strength = Full THEN "generate" ELSE "assert")
    ELSE IF ~mask /\ strength < Full
    THEN (IF image THEN "refine" ELSE "assert")
    ELSE IF strength = Full
    THEN (IF image /\ mask THEN "inpaint" ELSE "assert")
    ELSE (IF image /\ mask THEN "refine_region" ELSE "assert")

SelectMode(image, mask, strength, is_live) ==
    IF ~image /\ ~mask
    THEN (IF strength = Full THEN "generate" ELSE "assert")
    ELSE IF ~mask /\ strength < Full
    THEN (IF image THEN "refine" ELSE "assert")
    ELSE IF strength = Full /\ ~is_live
    THEN (IF image /\ mask THEN "inpaint" ELSE "assert")
    ELSE (IF image /\ mask THEN "refine_region" ELSE "assert")

\* the seed advanced by one per pass, without the stride
NextSeedNoStride(seed, i) == seed + (i + 1)

\* seed of the work item after the for loop's i-th pass
NextSeed(seed, i) == seed + (i + 1) * BatchSize

\* ------------------------------------------------------ jobs (JobQueue)
\* batch is history: the coroutine that added the record, the seed and the
\* count it was called with, and the pass of its for loop.
NoBatch == [task |-> 0, seed |-> 0, count |-> 0, i |-> 0]

NewJob(key, id, kind, bounds, prompt, negative, strength, seed, pose, batch) ==
    [key |-> key, id |-> id, kind |-> kind, state |-> "queued", results |-> 0,
     bounds |-> bounds, prompt |-> prompt, negative |-> negative,
     strength |-> strength, seed |-> seed, pose |-> pose, batch |-> batch,
     notified |-> FALSE]

\* JobQueue.find: index of the first record with this id, 0 when there is none
find(js, id) ==
    IF \E n \in 1..Len(js) : js[n].id = id
    THEN CHOOSE n \in 1..Len(js) :
             js[n].id = id /\ \A m \in 1..(n - 1) : js[m].id # id
    ELSE 0

\* index of the record with this key, 0 when it is no longer tracked
IndexOf(js, key) ==
    IF \E n \in 1..Len(js) : js[n].key = key
    THEN CHOOSE n \in 1..Len(js) : js[n].key = key
    ELSE 0

remove(js, key) == SelectSeq(js, LAMBDA j : j.key # key)

any_executing(js) == \E n \in 1..Len(js) : js[n].state = "executing"

set_results(js, n, images) == [js EXCEPT ![n].results = images]

notify_started(js, n) ==
    IF js[n].state = "queued" THEN [js EXCEPT ![n].state = "executing"] ELSE js

notify_cancelled(js, n) == [js EXCEPT ![n].state = "cancelled"]

\* JobQueue.notify_finished, without the job_finished signal it emits
SetFinished(js, n) == [js EXCEPT ![n].state = "finished", ![n].notified = TRUE]

\* [job for job in self.jobs if job.state is JobState.queued]
QueuedKeys(js) == {js[n].key : n \in {m \in 1..Len(js) : js[m].state = "queued"}}

\* ----------------------------------------------- coroutines (eventloop)
GenerateTask(tid, bounds, strength, image, mask, mask_bounds, seed, count, live) ==
    [tid |-> tid, type |-> "generate", pc |-> "start",
     bounds |-> bounds, strength |-> strength, image |-> image, mask |-> mask,
     mask_bounds |-> mask_bounds, seed |-> seed, count |-> count,
     is_live |-> live, i |-> 0, job_seed |-> seed, job_bounds |-> NoBounds,
     mask_rel |-> NoBounds, mode |-> "none"]

\* _upscale_image and _generate_control_layer: one enqueue for one record
JobTask(tid, type, key) ==
    [tid |-> tid, type |-> type, pc |-> "start", job |-> key]

\* _insert_frames_into_timeline(layer, frames)
DrainTask(tid, frames) ==
    [tid |-> tid, type |-> "drain", pc |-> "start", frames |-> frames,
     k |-> 0, t |-> 0, start |-> 0]

\* a coroutine that returned or raised is no longer scheduled
RemoveAt(ts, t) == SubSeq(ts, 1, t - 1) \o SubSeq(ts, t + 1, Len(ts))

\* ------------------------------------------------ LiveWorkspace, errors
\* The handlers below call into each other; W is the state they share.
World ==
    [is_active |-> is_active, is_recording |-> is_recording,
     keyframes |-> keyframes, recording_layer |-> recording_layer,
     tasks |-> tasks, next_task |-> next_task, error |-> error,
     live_submitted |-> live_submitted]

SetWorld(W) ==
    /\ is_active' = W.is_active
    /\ is_recording' = W.is_recording
    /\ keyframes' = W.keyframes
    /\ recording_layer' = W.recording_layer
    /\ tasks' = W.tasks
    /\ next_task' = W.next_task
    /\ error' = W.error
    /\ live_submitted' = W.live_submitted

\* eventloop.run(coroutine)
run(W, task) == [W EXCEPT !.tasks = Append(@, task), !.next_task = @ + 1]

\* what generate_live reads: a selection exists, live.strength, model.seed
LiveInputs == {[mask |-> FALSE, strength |-> 3, seed |-> 1]}
NoInput == [mask |-> FALSE, strength |-> 3, seed |-> 1]

clear_error(W) == [W EXCEPT !.error = ""]

\* Model.generate_live
generate_live(W, inp) ==
    LET bounds == IF inp.mask THEN MaskBounds ELSE Canvas
        image == inp.mask \/ inp.strength < Full
        task == GenerateTask(W.next_task, bounds, inp.strength, image, inp.mask,
                             IF inp.mask THEN MaskBounds ELSE NoBounds,
                             inp.seed, 1, TRUE)
    IN  [run(clear_error(W), task) EXCEPT !.live_submitted = @ + 1]

_add_recording_layer(W) == [W EXCEPT !.recording_layer = TRUE]

_insert_frames(W) ==
    IF Len(W.keyframes) > 0
    THEN LET W1 == _add_recording_layer(W)
         IN  [run(W1, DrainTask(W1.next_task, W1.keyframes)) EXCEPT
                  !.keyframes = <<>>]
    ELSE W

\* the setter of is_active without its else branch: recording left as it is
toggle_keeps_recording(W, active, inp) ==
    IF W.is_active # active
    THEN LET W1 == [W EXCEPT !.is_active = active]
         IN  IF active THEN generate_live(W1, inp) ELSE W1
    ELSE W

RECURSIVE toggle(_, _, _)
RECURSIVE toggle_record(_, _, _)

\* LiveWorkspace.toggle, the setter of is_active
toggle(W, active, inp) ==
    IF W.is_active # active
    THEN LET W1 == [W EXCEPT !.is_active = active]
         IN  IF active THEN generate_live(W1, inp)
                       ELSE toggle_record(W1, FALSE, inp)
    ELSE W

\* LiveWorkspace.toggle_record, the setter of is_recording
toggle_record(W, active, inp) ==
    IF W.is_recording # active
    THEN LET W1 == [W EXCEPT !.is_recording = active]
             W2 == toggle(W1, active, inp)
         IN  IF active THEN _add_recording_layer(W2) ELSE _insert_frames(W2)
    ELSE W

\* the result appended whether or not a recording is on
set_result_always(W, frame) == [W EXCEPT !.keyframes = Append(@, frame)]

\* LiveWorkspace.set_result
set_result(W, frame) ==
    IF W.is_recording THEN [W EXCEPT !.keyframes = Append(@, frame)] ELSE W

\* the handler without the test of is_active and of the document
handle_job_finished_unconditional(W, job, doc_active, inp) ==
    IF job.kind = "live_preview"
    THEN LET W1 == IF job.results > 0 THEN set_result(W, job.key) ELSE W
         IN  generate_live(W1, inp)
    ELSE W

\* LiveWorkspace.handle_job_finished, connected to JobQueue.job_finished
handle_job_finished(W, job, doc_active, inp) ==
    IF job.kind = "live_preview"
    THEN LET W1 == IF job.results > 0 THEN set_result(W, job.key) ELSE W
             W2 == toggle(W1, W1.is_active /\ doc_active, inp)
         IN  IF W2.is_active THEN generate_live(W2, inp) ELSE W2
    ELSE W

\* the error stored without switching the live session off
report_error_keeps_live(W, message) == [W EXCEPT !.error = message]

\* Model.report_error
report_error(W, message) ==
    toggle([W EXCEPT !.error = message], FALSE, NoInput)

\* -------------------------------------------------------------- history
\* last.op: "cancel", "message" (an event for an untracked id, or a finished
\* event), "start" (a _generate coroutine started), "toggle" (the user set
\* is_active or is_recording), "fail" (an enqueue raised), "validation" (the
\* color-mode check refused the operation), "drained" (a drain returned; args
\* is <<cursor at its start, number of frames>>), "step" for any other step.
\* reported: the step ran report_error.  raised: an exception left the
\* handler.
Blank ==
    [op |-> "step", reported |-> FALSE, raised |-> FALSE, known |-> FALSE,
     kind |-> "none", event |-> "none", images |-> 0, flag |-> FALSE,
     clears |-> 0, again |-> FALSE, mode |-> "none", args |-> <<>>]

Reported == [Blank EXCEPT !.reported = TRUE]

RECURSIVE Reserved(_)
\* job records the running batches will still add
Reserved(ts) ==
    IF ts = <<>> THEN 0
    ELSE (IF Head(ts).type = "generate"
          THEN Head(ts).count - Head(ts).i ELSE 0) + Reserved(Tail(ts))

\* the run stays within so many coroutines and job records
Within(nt, ts, nk, max_tasks, max_jobs) ==
    nt - 1 <= max_tasks /\ Reserved(ts) + nk - 1 <= max_jobs

\* ----------------------------------------------------------------- Init
Init ==
    /\ jobs = <<>>
    /\ selection = <<>>
    /\ progress = 0
    /\ error = ""
    /\ layer = FALSE
    /\ is_active = FALSE
    /\ is_recording = FALSE
    /\ keyframes = <<>>
    /\ recording_layer = FALSE
    /\ tasks = <<>>
    /\ next_task = 1
    /\ current_time = 0
    /\ end_time = 0
    /\ layer_keyframes = {}
    /\ pending = {}
    /\ next_id = 1
    /\ next_key = 1
    /\ add_log = <<>>
    /\ completed = {}
    /\ live_submitted = 0
    /\ write_log = <<>>
    /\ last = Blank

ModelVars == <<jobs, selection, progress, layer, next_id, next_key, add_log,
               completed>>
DocVars == <<current_time, end_time, layer_keyframes, pending, write_log>>
LiveVars == <<is_active, is_recording, keyframes, recording_layer, tasks,
              next_task, error, live_submitted>>

\* ------------------------------------------------------ Model.generate
\* the message reported and the operation started all the same
RefuseWithoutReturn(W, task) ==
    run(clear_error(report_error(W, "error")), task)

\* if not ok and msg: report_error(msg); return.  task is the coroutine the
\* operation would have started.
Refuse(W, task) == report_error(W, "error")

\* color: the answer of doc.check_color_mode(); mask: a selection exists
generate(color, mask, strength, seed, count) ==
    LET image == mask \/ strength < Full
        image_bounds == IF mask THEN ImageBounds ELSE Canvas
        task == GenerateTask(next_task, image_bounds, strength, image, mask,
                             IF mask THEN MaskBounds ELSE NoBounds, seed, count,
                             FALSE)
    IN  /\ IF color = "message"
           THEN /\ SetWorld(Refuse(World, task))
                /\ last' = [Reported EXCEPT !.op = "validation"]
           ELSE /\ SetWorld(run(clear_error(World), task))
                /\ last' = Blank
        /\ UNCHANGED <<ModelVars, DocVars>>

\* ------------------------------------------------- Model.upscale_image
upscale_image(seed) ==
    LET job == NewJob(next_key, 0, "upscaling", Canvas, "[Upscale]", "", Full,
                      seed, FALSE, NoBatch)
    IN  /\ jobs' = Append(jobs, job)
        /\ add_log' = Append(add_log, job)
        /\ next_key' = next_key + 1
        /\ SetWorld(run(clear_error(World),
                        JobTask(next_task, "upscale", next_key)))
        /\ last' = Blank
        /\ UNCHANGED <<selection, progress, layer, next_id, completed, DocVars>>

\* ---------------------------------------- Model.generate_control_layer
generate_control_layer(color, pose) ==
    IF color = "message"
    THEN /\ SetWorld(Refuse(World, JobTask(next_task, "control", next_key)))
         /\ last' = [Reported EXCEPT !.op = "validation"]
         /\ UNCHANGED <<ModelVars, DocVars>>
    ELSE LET job == NewJob(next_key, 0, "control_layer", Canvas, "[Control]",
                           "", Full, 0, pose, NoBatch)
         IN  /\ jobs' = Append(jobs, job)
             /\ add_log' = Append(add_log, job)
             /\ next_key' = next_key + 1
             /\ SetWorld(run(clear_error(World),
                             JobTask(next_task, "control", next_key)))
             /\ last' = Blank
             /\ UNCHANGED <<selection, progress, layer, next_id, completed,
                            DocVars>>

\* --------------------------------------------------------- Model.cancel
\* clears: the clear_queue requests the call sends to the remote worker
\* one clear_queue request for every job removed
CancelClearsPerJob(queued, to_remove) ==
    IF queued THEN Cardinality(to_remove) ELSE 0

CancelClears(queued, to_remove) ==
    IF queued /\ Cardinality(to_remove) > 0 THEN 1 ELSE 0

CancelRemoves(queued, to_remove) ==
    IF queued /\ Cardinality(to_remove) > 0 THEN to_remove ELSE {}

cancel(active, queued) ==
    LET to_remove == QueuedKeys(jobs)
        gone == CancelRemoves(queued, to_remove)
    IN  /\ jobs' = SelectSeq(jobs, LAMBDA j : j.key \notin gone)
        /\ last' = [Blank EXCEPT !.op = "cancel", !.flag = queued,
                                 !.clears = CancelClears(queued, to_remove)]
        /\ UNCHANGED <<selection, progress, layer, next_id, next_key, add_log,
                       completed, LiveVars, DocVars>>

\* ------------------------------------------------- host document, timeline
\* doc.find_last_keyframe(layer): 0 on a layer without keyframes
find_last_keyframe(kfs) ==
    IF kfs = {} THEN 0 ELSE CHOOSE t \in kfs : \A u \in kfs : u <= t

\* layer.hasKeyframeAtTime(time)
hasKeyframeAtTime(kfs, time) == time \in kfs

\* the frame the drain writes in pass k of "for frame in frames"
FrameAt(frames, k) == frames[k]

\* doc.current_time += 1
AdvanceCursor(time) == time + 1

\* eventloop.wait_until(condition) returns without suspending
WaitReturns(kfs, time) == hasKeyframeAtTime(kfs, time)

RECURSIVE DrainFrames(_, _, _, _)
\* The for loop of _insert_frames_into_timeline from pass d.k on, up to the
\* wait that suspends it: set_layer_content, trigger, wait_until, advance.
\* R.task is <<>> when the coroutine returned.
DrainFrames(d, time, pend, log) ==
    LET entry == [task |-> d.tid, index |-> d.k,
                  frame |-> FrameAt(d.frames, d.k), time |-> time,
                  kfs |-> layer_keyframes]
        log1 == Append(log, entry)
        pend1 == pend \cup {time}
    IN  IF WaitReturns(layer_keyframes, time)
        THEN IF d.k < Len(d.frames)
             THEN DrainFrames([d EXCEPT !.k = @ + 1], AdvanceCursor(time),
                              pend1, log1)
             ELSE [task |-> <<>>, current_time |-> AdvanceCursor(time),
                   end_time |-> AdvanceCursor(time),
                   pending |-> pend1, write_log |-> log1]
        ELSE [task |-> [d EXCEPT !.pc = "wait", !.t = time],
              current_time |-> time, end_time |-> end_time,
              pending |-> pend1, write_log |-> log1]

SetDrain(t, R) ==
    /\ tasks' = IF R.task = <<>> THEN RemoveAt(tasks, t)
                                 ELSE [tasks EXCEPT ![t] = R.task]
    /\ current_time' = R.current_time
    /\ end_time' = R.end_time
    /\ pending' = R.pending
    /\ write_log' = R.write_log

\* the event loop starts the coroutines in the order they were handed to it
Startable(t) ==
    /\ t \in 1..Len(tasks)
    /\ tasks[t].pc = "start"
    /\ \A u \in 1..(t - 1) : tasks[u].pc # "start"

\* --------------------- Model._generate up to its first client.enqueue
\* A failed assertion is an exception _report_errors catches and reports.
StartGenerate(t) ==
    LET d == tasks[t]
        mode == SelectMode(d.image, d.mask, d.strength, d.is_live)
        started == [d EXCEPT
            !.pc = "enqueue", !.mode = mode,
            !.job_bounds = JobBounds(d.mask, d.mask_bounds, d.bounds),
            !.mask_rel = IF d.mask THEN MaskBoundsRel(d.mask_bounds, d.bounds)
                                   ELSE NoBounds]
    IN  /\ Startable(t)
        /\ d.type = "generate"
        /\ progress' = IF any_executing(jobs) THEN progress ELSE 0
        /\ IF mode = "assert"
           THEN SetWorld(report_error([World EXCEPT !.tasks = RemoveAt(@, t)],
                                      "error"))
           ELSE SetWorld([World EXCEPT !.tasks[t] = started])
        /\ last' = [Blank EXCEPT
               !.op = "start", !.mode = mode, !.reported = (mode = "assert"),
               !.args = <<d.image, d.mask, d.strength, d.is_live>>]
        /\ UNCHANGED <<jobs, selection, layer, next_id, next_key, add_log,
                       completed, DocVars>>

\* ------ _upscale_image, _generate_control_layer up to client.enqueue
StartJobTask(t) ==
    /\ Startable(t)
    /\ tasks[t].type \in {"upscale", "control"}
    /\ tasks' = [tasks EXCEPT ![t].pc = "enqueue"]
    /\ last' = Blank
    /\ UNCHANGED <<ModelVars, DocVars, is_active, is_recording, keyframes,
                   recording_layer, next_task, error, live_submitted>>

\* ------ _insert_frames_into_timeline up to eventloop.process_events
StartDrain(t) ==
    /\ Startable(t)
    /\ tasks[t].type = "drain"
    /\ tasks' = [tasks EXCEPT ![t].pc = "events",
                               ![t].start = find_last_keyframe(layer_keyframes)]
    /\ current_time' = find_last_keyframe(layer_keyframes)
    /\ last' = Blank
    /\ UNCHANGED <<ModelVars, end_time, layer_keyframes, pending, write_log,
                   is_active, is_recording, keyframes, recording_layer,
                   next_task, error, live_submitted>>

\* history of a drain that returned: the cursor it started at, its frames
Drained(d) ==
    [Blank EXCEPT !.op = "drained", !.args = <<d.start, Len(d.frames)>>]

\* ------ the drain after process_events: frames until the first wait
ResumeDrain(t) ==
    LET R == DrainFrames([tasks[t] EXCEPT !.k = 1], current_time, pending,
                         write_log)
    IN  /\ t \in 1..Len(tasks)
        /\ tasks[t].type = "drain" /\ tasks[t].pc = "events"
        /\ SetDrain(t, R)
        /\ last' = IF R.task = <<>> THEN Drained(tasks[t]) ELSE Blank
        /\ UNCHANGED <<ModelVars, layer_keyframes, is_active, is_recording,
                       keyframes, recording_layer, next_task, error,
                       live_submitted>>

\* ------ the drain after wait_until: advance, then the next frames
ContinueDrain(t) ==
    LET R == DrainFrames([tasks[t] EXCEPT !.k = @ + 1],
                         AdvanceCursor(current_time), pending, write_log)
    IN  /\ t \in 1..Len(tasks)
        /\ tasks[t].type = "drain" /\ tasks[t].pc = "wait"
        /\ WaitReturns(layer_keyframes, current_time)
        /\ IF tasks[t].k < Len(tasks[t].frames)
           THEN /\ SetDrain(t, R)
                /\ last' = IF R.task = <<>> THEN Drained(tasks[t]) ELSE Blank
           ELSE /\ tasks' = RemoveAt(tasks, t)
                /\ current_time' = AdvanceCursor(current_time)
                /\ end_time' = AdvanceCursor(current_time)
                /\ last' = Drained(tasks[t])
                /\ UNCHANGED <<pending, write_log>>
        /\ UNCHANGED <<ModelVars, layer_keyframes, is_active, is_recording,
                       keyframes, recording_layer, next_task, error,
                       live_submitted>>

\* ------ the host carries out a triggered add_duplicate_frame action
HostAddKeyframe(time) ==
    /\ time \in pending
    /\ pending' = pending \ {time}
    /\ layer_keyframes' = layer_keyframes \cup {time}
    /\ last' = Blank
    /\ UNCHANGED <<ModelVars, LiveVars, current_time, end_time, write_log>>

\* ---------------- client.enqueue answers: the body of the for loop
JobKindOf(is_live) == IF is_live THEN "live_preview" ELSE "diffusion"

\* jobs.add(job_kind, job_id, pos, neg, bounds, strength, job.seed)
AddedJob(d, id, key) ==
    NewJob(key, id, JobKindOf(d.is_live), d.job_bounds, Prompt, NegativePrompt,
           d.strength, d.job_seed, FALSE,
           [task |-> d.tid, seed |-> d.seed, count |-> d.count, i |-> d.i])

\* for i in range(count): the loop goes on after pass i
LoopContinues(i, count) == i + 1 < count

EnqueueGenerate(t) ==
    LET d == tasks[t]
        job == AddedJob(d, next_id, next_key)
    IN  /\ t \in 1..Len(tasks)
        /\ d.type = "generate" /\ d.pc = "enqueue"
        /\ jobs' = Append(jobs, job)
        /\ add_log' = Append(add_log, job)
        /\ next_id' = next_id + 1
        /\ next_key' = next_key + 1
        /\ IF LoopContinues(d.i, d.count)
           THEN /\ tasks' = [tasks EXCEPT
                       ![t].job_seed = NextSeed(d.seed, d.i), ![t].i = d.i + 1]
                /\ completed' = completed
           ELSE /\ tasks' = RemoveAt(tasks, t)
                /\ completed' = completed \cup {d.tid}
        /\ last' = Blank
        /\ UNCHANGED <<selection, progress, layer, DocVars, is_active,
                       is_recording, keyframes, recording_layer, next_task,
                       error, live_submitted>>

\* job.id = await client.enqueue(work)
EnqueueJobTask(t) ==
    LET n == IF t \in 1..Len(tasks) /\ tasks[t].type \in {"upscale", "control"}
             THEN IndexOf(jobs, tasks[t].job) ELSE 0
    IN  /\ t \in 1..Len(tasks)
        /\ tasks[t].type \in {"upscale", "control"} /\ tasks[t].pc = "enqueue"
        /\ jobs' = IF n = 0 THEN jobs ELSE [jobs EXCEPT ![n].id = next_id]
        /\ next_id' = next_id + 1
        /\ tasks' = RemoveAt(tasks, t)
        /\ last' = Blank
        /\ UNCHANGED <<selection, progress, layer, next_key, add_log, completed,
                       DocVars, is_active, is_recording, keyframes,
                       recording_layer, next_task, error, live_submitted>>

\* the failed item skipped and the for loop carried on
SkipItem(ts, t) ==
    IF ts[t].type = "generate" /\ LoopContinues(ts[t].i, ts[t].count)
    THEN [ts EXCEPT ![t].job_seed = NextSeed(ts[t].seed, ts[t].i), ![t].i = @ + 1]
    ELSE RemoveAt(ts, t)

\* the exception leaves the coroutine: no later pass of its loop runs
AbortBatch(ts, t) == RemoveAt(ts, t)

\* client.enqueue raises NetworkError: _report_errors reports it
EnqueueFails(t) ==
    /\ t \in 1..Len(tasks)
    /\ tasks[t].type \in {"generate", "upscale", "control"}
    /\ tasks[t].pc = "enqueue"
    /\ SetWorld(report_error([World EXCEPT !.tasks = AbortBatch(@, t)], "error"))
    /\ last' = [Reported EXCEPT !.op = "fail"]
    /\ UNCHANGED <<ModelVars, DocVars>>

\* ------------------------------------------------- Model.handle_message
\* Model.show_preview raises IndexError on job.results[index] when the job
\* has no such result; otherwise the preview layer exists afterwards.
ShowPreviewRaises(job, index) == job.results <= index

\* Model.add_upscale_layer asserts len(job.results) > 0
UpscaleAsserts(job) == job.results = 0

\* some tracked record has this id
Tracked(js, id) == \E n \in 1..Len(js) : js[n].id = id

\* every finished job removed, diffusion jobs too
EvictAll(js, key, kind) == remove(js, key)

\* if job.kind is not JobKind.diffusion: self.jobs.remove(job)
Evict(js, key, kind) == IF kind # "diffusion" THEN remove(js, key) ELSE js

\* The finished branch: what handle_message leaves behind.  again is
\* history: notify_finished had run for this record before.
Finished(n, images, auto_preview, doc_active, inp) ==
    LET key == jobs[n].key
        id == jobs[n].id
        kind == jobs[n].kind
        js1 == IF images > 0 THEN set_results(jobs, n, images) ELSE jobs
        stop == kind = "upscaling" /\ UpscaleAsserts(js1[n])
        layer2 == IF kind = "upscaling" THEN FALSE ELSE layer
        js2 == SetFinished(js1, n)
        W == handle_job_finished(World, js2[n], doc_active, inp)
        selecting == kind = "diffusion" /\ auto_preview /\ ~layer2 /\ id # 0
        changed == selecting /\ selection # <<id, 0>>
        raises == changed /\ ShowPreviewRaises(js2[n], 0)
    IN  IF stop
        THEN [jobs |-> js1, W |-> World, progress |-> progress,
              selection |-> selection, layer |-> layer, raised |-> TRUE,
              again |-> FALSE]
        ELSE [jobs |-> Evict(js2, key, kind),
              again |-> jobs[n].notified,
              W |-> W, progress |-> Full,
              selection |-> IF selecting THEN <<id, 0>> ELSE selection,
              layer |-> IF changed /\ ~raises THEN TRUE ELSE layer2,
              raised |-> raises]

Quiet(js, W, value) ==
    [jobs |-> js, W |-> W, progress |-> value, selection |-> selection,
     layer |-> layer, raised |-> FALSE, again |-> FALSE]

\* the unknown id surfaced through report_error instead of the log
UnknownJobReported(js, W) == Quiet(js, report_error(W, "error"), progress)

\* if job is None: the event is logged and handle_message returns
UnknownJob(js, W) == Quiet(js, W, progress)

handle_message(event, job_id, value, images, auto_preview, doc_active, inp) ==
    LET n == find(jobs, job_id)
        R == IF n = 0 THEN UnknownJob(jobs, World)
             ELSE IF event = "progress"
             THEN Quiet(notify_started(jobs, n), World, value)
             ELSE IF event = "finished"
             THEN Finished(n, images, auto_preview, doc_active, inp)
             ELSE IF event = "interrupted"
             THEN Quiet(notify_cancelled(jobs, n), World, 0)
             ELSE Quiet(notify_cancelled(jobs, n),
                        report_error(World, "error"), progress)
    IN  /\ jobs' = R.jobs
        /\ progress' = R.progress
        /\ selection' = R.selection
        /\ layer' = R.layer
        /\ SetWorld(R.W)
        /\ last' = IF ~Tracked(jobs, job_id)
                   THEN [Blank EXCEPT !.op = "message", !.raised = R.raised]
                   ELSE IF event = "finished"
                   THEN [Blank EXCEPT
                            !.op = "message", !.event = event, !.known = TRUE,
                            !.raised = R.raised, !.again = R.again,
                            !.images = images, !.flag = doc_active,
                            !.kind = jobs[n].kind]
                   ELSE IF event = "error" THEN Reported
                   ELSE Blank
        /\ UNCHANGED <<next_id, next_key, add_log, completed, DocVars>>

\* ----------------------------------- the user sets live.is_active
SetActive(active, inp) ==
    /\ SetWorld(toggle(World, active, inp))
    /\ last' = [Blank EXCEPT !.op = "toggle"]
    /\ UNCHANGED <<ModelVars, DocVars>>

\* ---------------------------------- the user sets live.is_recording
SetRecording(active, inp) ==
    /\ SetWorld(toggle_record(World, active, inp))
    /\ last' = [Blank EXCEPT !.op = "toggle"]
    /\ UNCHANGED <<ModelVars, DocVars>>

\* ------------------------- Model._generate called with any arguments
Call(bounds, strength, image, mask, mask_bounds, seed, count, is_live) ==
    /\ SetWorld(run(World, GenerateTask(next_task, bounds, strength, image, mask,
                                        mask_bounds, seed, count, is_live)))
    /\ last' = Blank
    /\ UNCHANGED <<ModelVars, DocVars>>

\* ----------------------------------------------------------------- Next
MessageIds == 1..next_id
ProgressValues == {5}
Images == 0..1
Colors == {"ok", "message", "unnamed"}
Requests == {[mask |-> TRUE, strength |-> 3]}

KindOfId(job_id) ==
    IF find(jobs, job_id) = 0 THEN "none" ELSE jobs[find(jobs, job_id)].kind

\* what a finished event for this job reads from the settings and the document
AutoPreviews(job_id) == IF KindOfId(job_id) = "diffusion" THEN BOOLEAN ELSE {FALSE}

\* Spec: requests, batches, events and cancel
InSpec == Within(next_task', tasks', next_key', MaxTasks, MaxJobs)

Next ==
    \/ \E color \in Colors, r \in Requests, count \in 1..MaxBatch :
          generate(color, r.mask, r.strength, 1, count) /\ InSpec
    \/ upscale_image(1) /\ InSpec
    \/ \E color \in Colors, pose \in BOOLEAN :
          generate_control_layer(color, pose) /\ InSpec
    \/ \E active \in BOOLEAN, queued \in BOOLEAN : cancel(active, queued) /\ InSpec
    \/ \E job_id \in MessageIds, images \in Images :
          \E auto_preview \in AutoPreviews(job_id) :
              handle_message("finished", job_id, 0, images, auto_preview, TRUE,
                             NoInput) /\ InSpec
    \/ \E job_id \in MessageIds, value \in ProgressValues :
          handle_message("progress", job_id, value, 0, FALSE, TRUE, NoInput)
              /\ InSpec
    \/ \E job_id \in MessageIds, event \in {"interrupted", "error"} :
          handle_message(event, job_id, 0, 0, FALSE, TRUE, NoInput) /\ InSpec
    \/ \E t \in 1..Len(tasks) : StartGenerate(t) /\ InSpec
    \/ \E t \in 1..Len(tasks) : EnqueueGenerate(t) /\ InSpec
    \/ \E t \in 1..Len(tasks) : EnqueueFails(t) /\ InSpec
    \/ \E t \in 1..Len(tasks) : StartJobTask(t) /\ InSpec
    \/ \E t \in 1..Len(tasks) : EnqueueJobTask(t) /\ InSpec

Spec == Init /\ [][Next]_vars

\* SpecLive: the live loop and the recording drain
InLive == Within(next_task', tasks', next_key', MaxLiveTasks, MaxLiveJobs)

NextLive ==
    \/ \E active \in BOOLEAN, inp \in LiveInputs : SetActive(active, inp) /\ InLive
    \/ \E active \in BOOLEAN, inp \in LiveInputs :
          SetRecording(active, inp) /\ InLive
    \/ generate("message", FALSE, Full, 1, 1) /\ InLive
    \/ \E job_id \in MessageIds, images \in Images, doc_active \in BOOLEAN,
          inp \in LiveInputs :
          handle_message("finished", job_id, 0, images, FALSE, doc_active, inp)
              /\ InLive
    \/ \E job_id \in MessageIds, event \in {"interrupted", "error"} :
          handle_message(event, job_id, 0, 0, FALSE, TRUE, NoInput) /\ InLive
    \/ \E t \in 1..Len(tasks) : StartGenerate(t) /\ InLive
    \/ \E t \in 1..Len(tasks) : EnqueueGenerate(t) /\ InLive
    \/ \E t \in 1..Len(tasks) : EnqueueFails(t) /\ InLive
    \/ \E t \in 1..Len(tasks) : StartDrain(t) /\ InLive
    \/ \E t \in 1..Len(tasks) : ResumeDrain(t) /\ InLive
    \/ \E t \in 1..Len(tasks) : ContinueDrain(t) /\ InLive
    \/ \E time \in pending : HostAddKeyframe(time) /\ InLive

SpecLive == Init /\ [][NextLive]_vars

\* SpecMode: _generate on every combination of its arguments
BoundsArgs == {<<Canvas, NoBounds>>, <<ImageBounds, MaskBounds>>,
               <<MaskBounds, MaskBounds>>}

InMode == Within(next_task', tasks', next_key', 1, MaxBatch)

NextMode ==
    \/ \E image \in BOOLEAN, mask \in BOOLEAN, strength \in AllStrengths,
          is_live \in BOOLEAN, seed \in Seeds, count \in 1..MaxBatch,
          b \in BoundsArgs :
          /\ mask <=> b[2] # NoBounds
          /\ Call(b[1], strength, image, mask, b[2], seed, count, is_live)
          /\ InMode
    \/ \E t \in 1..Len(tasks) : StartGenerate(t) /\ InMode
    \/ \E t \in 1..Len(tasks) : EnqueueGenerate(t) /\ InMode
    \/ \E t \in 1..Len(tasks) : EnqueueFails(t) /\ InMode

SpecMode == Init /\ [][NextMode]_vars

\* SpecRec: recording sessions; every event is the finished event of a
\* tracked live job and delivers an image
InRec == Within(next_task', tasks', next_key', MaxRecTasks, MaxRecJobs)

NextRec ==
    \/ \E active \in BOOLEAN, inp \in LiveInputs :
          SetRecording(active, inp) /\ InRec
    \/ \E n \in 1..Len(jobs), doc_active \in BOOLEAN, inp \in LiveInputs :
          handle_message("finished", jobs[n].id, 0, 1, FALSE, doc_active, inp)
              /\ InRec
    \/ \E t \in 1..Len(tasks) : StartGenerate(t) /\ InRec
    \/ \E t \in 1..Len(tasks) : EnqueueGenerate(t) /\ InRec
    \/ \E t \in 1..Len(tasks) : StartDrain(t) /\ InRec
    \/ \E t \in 1..Len(tasks) : ResumeDrain(t) /\ InRec
    \/ \E t \in 1..Len(tasks) : ContinueDrain(t) /\ InRec
    \/ \E time \in pending : HostAddKeyframe(time) /\ InRec

SpecRec == Init /\ [][NextRec]_vars

\* =============================================================== claims
\* C1, as the claim states it: every combination of (image, mask, strength,
\* is_live) either is one of the two listed violations (a mask without an
\* image, no image with strength < 1), fails an assertion and leaves no
\* coroutine waiting on an enqueue, or calls exactly the builder of the table.
C1_TableAsWritten ==
    last.op = "start" =>
        LET image == last.args[1]
            mask == last.args[2]
            strength == last.args[3]
            is_live == last.args[4]
            violation == (mask /\ ~image) \/ (~image /\ strength < Full)
            waiting == \E t \in 1..Len(tasks) :
                           /\ tasks[t].type = "generate"
                           /\ tasks[t].pc = "enqueue"
                           /\ tasks[t].mode = last.mode
        IN  IF violation
            THEN last.mode = "assert" /\ last.reported /\ ~waiting
            ELSE /\ last.mode \in {"generate", "refine", "inpaint", "refine_region"}
                 /\ waiting
                 /\ (~image /\ ~mask /\ strength = Full) => last.mode = "generate"
                 /\ (image /\ ~mask /\ strength < Full) => last.mode = "refine"
                 /\ (image /\ mask /\ strength = Full /\ ~is_live)
                        => last.mode = "inpaint"
                 /\ (image /\ mask /\ (strength < Full \/ is_live))
                        => last.mode = "refine_region"

\* C1, amended: the same table, and an image without a mask at strength 1 is
\* a third combination that fails an assertion and builds no work item.
C1_ModeSelection ==
    last.op = "start" =>
        LET image == last.args[1]
            mask == last.args[2]
            strength == last.args[3]
            is_live == last.args[4]
            violation == \/ mask /\ ~image
                         \/ ~image /\ strength < Full
                         \/ image /\ ~mask /\ strength = Full
            waiting == \E t \in 1..Len(tasks) :
                           /\ tasks[t].type = "generate"
                           /\ tasks[t].pc = "enqueue"
                           /\ tasks[t].mode = last.mode
        IN  IF violation
            THEN last.mode = "assert" /\ last.reported /\ ~waiting
            ELSE /\ last.mode \in {"generate", "refine", "inpaint", "refine_region"}
                 /\ waiting
                 /\ (~image /\ ~mask /\ strength = Full) => last.mode = "generate"
                 /\ (image /\ ~mask /\ strength < Full) => last.mode = "refine"
                 /\ (image /\ mask /\ strength = Full /\ ~is_live)
                        => last.mode = "inpaint"
                 /\ (image /\ mask /\ (strength < Full \/ is_live))
                        => last.mode = "refine_region"

\* a live request with image and mask at strength 1 called refine_region
C1_Witness ==
    /\ last.op = "start"
    /\ last.args = <<TRUE, TRUE, Full, TRUE>>
    /\ last.mode = "refine_region"

\* C2: a batch of N whose enqueues all succeeded added exactly N records; the
\* i-th carries seed base + i * stride and all carry the same bounds, prompt,
\* negative prompt and strength; the collection holds records in the order
\* they were added.
C2_BatchRecords ==
    /\ \A tid \in completed :
          LET recs == SelectSeq(add_log, LAMBDA r : r.batch.task = tid)
          IN  /\ Len(recs) >= 1
              /\ Len(recs) = recs[1].batch.count
              /\ \A k \in 1..Len(recs) :
                    /\ recs[k].seed = recs[1].batch.seed + (k - 1) * BatchSize
                    /\ recs[k].bounds = recs[1].bounds
                    /\ recs[k].prompt = recs[1].prompt
                    /\ recs[k].negative = recs[1].negative
                    /\ recs[k].strength = recs[1].strength
    /\ \A a \in 1..Len(jobs), b \in 1..Len(jobs) :
          a < b =>
              /\ jobs[a].key < jobs[b].key
              /\ (jobs[a].batch.task = jobs[b].batch.task /\ jobs[a].batch.task # 0)
                     => jobs[a].batch.i < jobs[b].batch.i

\* a batch of two ran to its end and both of its records are in the collection
C2_Witness ==
    \E tid \in completed :
        /\ Cardinality({n \in 1..Len(add_log) : add_log[n].batch.task = tid}) = 2
        /\ Cardinality({n \in 1..Len(jobs) : jobs[n].batch.task = tid}) = 2

\* C3: when a live-preview job finishes, a live request is submitted exactly
\* when is_active was true and the document is valid; otherwise is_active is
\* false afterwards and nothing is submitted.  Live requests are submitted by
\* no step other than a finished event and a toggle by the user.
C3_LiveLoop ==
    [][/\ (last'.op = "message" /\ last'.event = "finished"
              /\ last'.kind = "live_preview")
          => IF is_active /\ last'.flag
             THEN is_active' /\ live_submitted' = live_submitted + 1
             ELSE ~is_active' /\ live_submitted' = live_submitted
       /\ live_submitted' # live_submitted
          => (last'.op = "toggle" \/ (last'.op = "message" /\ last'.known))
      ]_vars

\* is_active was set and cleared before the only live job finished, in a
\* valid document: one request in total
C3_Witness ==
    /\ last.op = "message" /\ last.event = "finished"
    /\ last.kind = "live_preview" /\ last.flag
    /\ ~is_active
    /\ live_submitted = 1

\* C4: a step that ran report_error leaves is_active false, and while
\* is_active is false only a toggle by the user submits a live request.
C4_ErrorStopsLive ==
    [][/\ last'.reported => ~is_active' /\ live_submitted' = live_submitted
       /\ (~is_active /\ live_submitted' # live_submitted) => last'.op = "toggle"
      ]_vars

\* an error was reported after live requests had been submitted
C4_Witness ==
    /\ last.reported
    /\ live_submitted >= 2
    /\ error # ""
    /\ ~is_active

\* C5, as the claim states it: cancel(queued=True) removes exactly the queued
\* jobs and asks the remote worker to clear its queue exactly once.
C5_ClearsOncePerCall ==
    [][(last'.op = "cancel" /\ last'.flag)
          => /\ jobs' = SelectSeq(jobs, LAMBDA j : j.state # "queued")
             /\ last'.clears = 1
      ]_vars

\* C5, amended: cancel(queued=True) removes exactly the queued jobs; it asks
\* for a queue-clear once when at least one job was queued and not at all
\* when none was.
C5_ClearsOnceIfQueued ==
    [][(last'.op = "cancel" /\ last'.flag)
          => /\ jobs' = SelectSeq(jobs, LAMBDA j : j.state # "queued")
             /\ last'.clears = IF QueuedKeys(jobs) = {} THEN 0 ELSE 1
      ]_vars

\* cancel(queued=True) removed a queued job and kept an executing one
C5_Witness ==
    /\ last.op = "cancel" /\ last.flag /\ last.clears = 1
    /\ Len(add_log) = 2
    /\ Len(jobs) = 1
    /\ jobs[1].state = "executing"

\* C6: an event whose job id matches no tracked job raises nothing and leaves
\* the collection, the progress, the error, the selection, the preview layer
\* and the live session as they were.
C6_UnknownJobIgnored ==
    [][(last'.op = "message" /\ ~last'.known)
          => /\ ~last'.raised
             /\ UNCHANGED <<jobs, selection, progress, error, layer, is_active,
                            is_recording, keyframes, recording_layer, tasks>>
      ]_vars

\* an event for an untracked id arrived while a job was executing
C6_Witness ==
    /\ last.op = "message" /\ ~last.known
    /\ any_executing(jobs)
    /\ progress = 5

\* C7, as the claim states it: a finished event without images for a tracked
\* job that is no upscaling job raises nothing.
C7_EmptyFinishedCompletes ==
    (last.op = "message" /\ last.event = "finished" /\ last.known
        /\ last.images = 0 /\ last.kind # "upscaling")
    => ~last.raised

\* C8, as the claim states it: within one drain, frame k+1 is written only
\* when the layer has a keyframe at the time frame k was written at, and the
\* buffer is empty whenever recording is off.
C8_DrainAcknowledged ==
    /\ \A a \in 1..Len(write_log), b \in 1..Len(write_log) :
          (write_log[a].task = write_log[b].task
              /\ write_log[b].index = write_log[a].index + 1)
          => write_log[a].time \in write_log[b].kfs
    /\ ~is_recording => keyframes = <<>>

\* C9, as the claim states it: whenever a frame is written, every frame
\* written before it, by any drain, has its keyframe on the layer.
C9_NoWriteWhileUnacknowledged ==
    \A b \in 1..Len(write_log) :
        \A a \in 1..(b - 1) : write_log[a].time \in write_log[b].kfs

\* C10, as the claim states it: no finished event is processed for a job
\* whose finished notification has already run.
C10_PostProcessOnce ==
    (last.op = "message" /\ last.event = "finished") => ~last.again

\* C11, as the claim states it: the state of a tracked job changes only from
\* queued to executing, or from queued or executing to finished or cancelled;
\* no event changes the state of a job that is finished or cancelled.
C11_Lifecycle ==
    [][\A a \in 1..Len(jobs), b \in 1..Len(jobs') :
          jobs[a].key = jobs'[b].key =>
              \/ jobs'[b].state = jobs[a].state
              \/ /\ jobs[a].state = "queued"
                 /\ jobs'[b].state \in {"executing", "finished", "cancelled"}
              \/ /\ jobs[a].state = "executing"
                 /\ jobs'[b].state \in {"finished", "cancelled"}
      ]_vars

\* C12: a finished event that handle_message processed for a tracked job
\* leaves progress at 1; a diffusion job stays in the collection, in state
\* finished, and a job of any other kind is removed from it in the same call.
C12_EvictNonDiffusion ==
    [][(last'.op = "message" /\ last'.event = "finished" /\ last'.known
           /\ ~(last'.kind = "upscaling" /\ last'.raised))
          => /\ progress' = Full
             /\ \E n \in 1..Len(jobs) :
                   /\ jobs[n].kind = last'.kind
                   /\ IF last'.kind = "diffusion"
                      THEN /\ Len(jobs') = Len(jobs)
                           /\ jobs'[n].key = jobs[n].key
                           /\ jobs'[n].state = "finished"
                           /\ \A m \in 1..Len(jobs) : m # n => jobs'[m] = jobs[m]
                      ELSE jobs' = SelectSeq(jobs, LAMBDA j : j.key # jobs[n].key)
      ]_vars

\* a control-layer job was removed by its finished event while a finished
\* diffusion job stays in the collection
C12_Witness ==
    /\ last.op = "message" /\ last.event = "finished" /\ last.known
    /\ last.kind = "control_layer" /\ ~last.raised
    /\ Len(add_log) = 2
    /\ Len(jobs) = 1
    /\ jobs[1].kind = "diffusion" /\ jobs[1].state = "finished"

\* C13, as the claim states it: no live-preview, upscaling or control-layer
\* job is in the collection in a terminal state, finished or cancelled.
C13_TerminalEvicted ==
    \A n \in 1..Len(jobs) :
        jobs[n].kind # "diffusion" => jobs[n].state \notin {"finished", "cancelled"}


\* C14: when the enqueue of an item of a batch fails, the step adds no record,
\* leaves every record already added as it was, sets the user-visible error
\* once, and ends the coroutine, so that no later item of the batch is
\* enqueued: a record is only ever added for a batch whose coroutine is still
\* waiting at its enqueue, and it is the record of the item it waits for.
C14_FailedEnqueueAborts ==
    [][/\ last'.op = "fail" =>
            /\ \E t \in 1..Len(tasks) :
                  /\ tasks[t].pc = "enqueue"
                  /\ tasks' = RemoveAt(tasks, t)
            /\ jobs' = jobs
            /\ add_log' = add_log
            /\ next_id' = next_id
            /\ next_key' = next_key
            /\ error' = "error"
       /\ (Len(add_log') > Len(add_log) /\ add_log'[Len(add_log')].batch.task # 0) =>
            \E t \in 1..Len(tasks) :
                /\ tasks[t].type = "generate" /\ tasks[t].pc = "enqueue"
                /\ tasks[t].tid = add_log'[Len(add_log')].batch.task
                /\ tasks[t].i = add_log'[Len(add_log')].batch.i
      ]_vars

\* the second enqueue of a batch of two failed: the batch has one record, the
\* error is set, and the record was still driven to finished by later events
C14_Witness ==
    /\ error = "error"
    /\ \E n \in 1..Len(jobs) :
          /\ jobs[n].batch.count = 2 /\ jobs[n].batch.i = 0
          /\ jobs[n].batch.task \notin completed
          /\ jobs[n].state = "finished"
          /\ jobs[n].seed = jobs[n].batch.seed
          /\ \A t \in 1..Len(tasks) : tasks[t].tid # jobs[n].batch.task
          /\ Cardinality({m \in 1..Len(add_log) :
                            add_log[m].batch.task = jobs[n].batch.task}) = 1


\* C15, as the claim states it: a _generate whose mode selection fails an
\* assertion does not reach the user-visible error state: report_error is not
\* run by it, the error message is as it was before and so are the live
\* session flags.
C15_AssertionNotReported ==
    [][(last'.op = "start" /\ last'.mode = "assert") =>
           /\ ~last'.reported
           /\ error' = error
           /\ is_active' = is_active
           /\ is_recording' = is_recording
      ]_vars


\* C16: a _generate given a mask works with the mask's absolute bounds as the
\* job bounds and hands the builder a mask whose bounds are (mask.x -
\* request.x, mask.y - request.y) with the mask's extent; without a mask the
\* job bounds are the request's bounds.  Every record the request adds carries
\* these job bounds.
C16_MaskBounds ==
    [][/\ \A t \in 1..Len(tasks') :
             (tasks'[t].type = "generate" /\ tasks'[t].pc = "enqueue") =>
                 LET d == tasks'[t]
                 IN  IF d.mask
                     THEN /\ d.job_bounds = d.mask_bounds
                          /\ d.mask_rel = <<d.mask_bounds[1] - d.bounds[1],
                                            d.mask_bounds[2] - d.bounds[2],
                                            d.mask_bounds[3], d.mask_bounds[4]>>
                     ELSE d.job_bounds = d.bounds
       /\ Len(add_log') > Len(add_log) =>
             LET r == add_log'[Len(add_log')]
             IN  \E t \in 1..Len(tasks) :
                     /\ tasks[t].tid = r.batch.task
                     /\ r.bounds = IF tasks[t].mask THEN tasks[t].mask_bounds
                                                    ELSE tasks[t].bounds
      ]_vars

\* a request with image bounds (1, 1, 6, 6) and a mask at (3, 2, 4, 4) has
\* added its first record and waits for the second enqueue
C16_Witness ==
    /\ Len(add_log) = 1
    /\ add_log[1].bounds = MaskBounds
    /\ Len(tasks) = 1
    /\ tasks[1].bounds = ImageBounds
    /\ tasks[1].mask_rel = <<2, 1, 4, 4>>
    /\ tasks[1].job_bounds = <<3, 2, 4, 4>>
    /\ tasks[1].i = 1


\* C17: a generate() or generate_control_layer() whose color-mode check fails
\* with a message sets the error message and starts nothing: no job record is
\* added, no coroutine that enqueues work is handed to the event loop, no id
\* is given out by the remote worker, and the progress indicator is as it
\* was.
C17_ValidationStartsNothing ==
    [][last'.op = "validation" =>
           /\ error' = "error"
           /\ last'.reported
           /\ jobs' = jobs
           /\ add_log' = add_log
           /\ next_key' = next_key
           /\ next_id' = next_id
           /\ SelectSeq(tasks', LAMBDA d : d.type # "drain")
                  = SelectSeq(tasks, LAMBDA d : d.type # "drain")
           /\ progress' = progress
      ]_vars

\* a request was refused while a job was tracked and progress stood at 0.5
C17_Witness ==
    /\ last.op = "validation"
    /\ error = "error"
    /\ Len(jobs) = 1
    /\ jobs[1].state = "executing"
    /\ progress = 5
    /\ tasks = <<>>


\* C18: between handlers is_recording implies is_active, and every step that
\* turns is_active off, be it the user's toggle, a reported error or a
\* finished live job of a document that is no longer active, leaves
\* is_recording false.
C18_RecordingImpliesLive ==
    /\ [](is_recording => is_active)
    /\ [][(is_active /\ ~is_active') => ~is_recording']_vars

\* a recording session with a captured frame was ended by a reported error:
\* both flags are off and the frames went to a drain
C18_Witness ==
    /\ last.reported
    /\ ~is_active /\ ~is_recording
    /\ recording_layer
    /\ keyframes = <<>>
    /\ \E t \in 1..Len(tasks) : tasks[t].type = "drain" /\ Len(tasks[t].frames) = 1


\* C19, as the claim states it: when a drain returns, the timeline's end time
\* is the cursor position, and it is the layer's last keyframe time at the
\* drain's start plus the number of frames the drain was given.
C19_DrainEndTime ==
    last.op = "drained" =>
        /\ end_time = current_time
        /\ end_time = last.args[1] + last.args[2]


\* C20, as the claim states it: once cancel(queued=True) has returned while a
\* batch is suspended at the enqueue of one of its later items, the next step
\* adds no record of that batch and the collection holds no queued job of it.
C20_CancelStopsBatch ==
    [][(last.op = "cancel" /\ last.flag) =>
           \A t \in 1..Len(tasks) :
               (tasks[t].type = "generate" /\ tasks[t].pc = "enqueue"
                   /\ tasks[t].i >= 1) =>
                   /\ \A n \in (Len(add_log) + 1)..Len(add_log') :
                         add_log'[n].batch.task # tasks[t].tid
                   /\ \A n \in 1..Len(jobs') :
                         jobs'[n].batch.task = tasks[t].tid
                             => jobs'[n].state # "queued"
      ]_vars


\* C21, as the claim states it: at most one live-preview request is
\* outstanding, counting the _generate coroutines of live requests that have
\* not returned and the live-preview jobs that are queued or executing.
C21_OneLiveOutstanding ==
    Cardinality({t \in 1..Len(tasks) :
                    tasks[t].type = "generate" /\ tasks[t].is_live})
      + Cardinality({n \in 1..Len(jobs) :
                    /\ jobs[n].kind = "live_preview"
                    /\ jobs[n].state \in {"queued", "executing"}})
      <= 1


\* C22, as the claim states it: a tracked record without a server id belongs
\* to an upscale or control-layer coroutine still waiting for its enqueue;
\* once the enqueue has failed and the failure is reported no such record is
\* left in the collection.
C22_NoRecordWithoutId ==
    \A n \in 1..Len(jobs) :
        jobs[n].id = 0 =>
            \E t \in 1..Len(tasks) :
                /\ tasks[t].type \in {"upscale", "control"}
                /\ tasks[t].job = jobs[n].key


\* C23: between handlers the keyframe buffer is empty whenever is_recording is
\* false; the buffer grows only in the step of a finished live-preview event
\* that carries an image and arrives while is_recording is true; and the
\* frames a drain was given never change while it runs.
C23_BufferOnlyWhileRecording ==
    /\ [](~is_recording => keyframes = <<>>)
    /\ [][/\ Len(keyframes') > Len(keyframes) =>
                /\ is_recording /\ is_recording'
                /\ last'.op = "message" /\ last'.event = "finished"
                /\ last'.kind = "live_preview" /\ last'.images > 0
                /\ Len(keyframes') = Len(keyframes) + 1
                /\ SubSeq(keyframes', 1, Len(keyframes)) = keyframes
          /\ \A a \in 1..Len(tasks), b \in 1..Len(tasks') :
                (tasks[a].type = "drain" /\ tasks'[b].tid = tasks[a].tid) =>
                    tasks'[b].frames = tasks[a].frames
      ]_vars

\* the result of a live job arrived after recording had stopped, while the
\* drain of the one recorded frame was waiting for the host: the buffer is
\* empty and the drain still has its one frame
C23_Witness ==
    /\ last.op = "message" /\ last.event = "finished"
    /\ last.kind = "live_preview" /\ last.images > 0
    /\ ~is_recording
    /\ keyframes = <<>>
    /\ \E t \in 1..Len(tasks) :
          /\ tasks[t].type = "drain" /\ tasks[t].pc = "wait"
          /\ Len(tasks[t].frames) = 1
====
